---- MODULE Spec2Model ----
(***************************************************************************)
(* Model of the PIX payment intermediary of src/server.js (the version     *)
(* with the secondary index buckpayIdToExternalId, lines 484-997): the     *)
(* in-memory ledger pendingTransactions, the index, the create-payment,    *)
(* webhook and check-order-status handlers, sendToUTMify and the sweeper   *)
(* cleanupTransactionsInMemory.                                            *)
(*                                                                         *)
(* Node runs every handler atomically up to an await of an outbound call.  *)
(* A handler slot holds the locals a suspended handler keeps across its    *)
(* await.  Time is counted in minutes and advances by one sweep interval.  *)
(***************************************************************************)
EXTENDS Integers, FiniteSets, Sequences, TLC

VARIABLES
    pendingTransactions,   \* externalId -> transactionInfo   (server.js:508)
    buckpayIdToExternalId, \* buckpayId  -> externalId        (server.js:510)
    UTMIFY_TOKEN,          \* TRUE iff process.env.UTMIFY_TOKEN is set
    now,                   \* wall clock, minutes
    sweepDue,              \* the setInterval timer has fired, callback not yet run
    nextOrder,             \* number of externalIds generated so far
    handlers,              \* slot -> locals of a suspended handler
    lazilyExpired,         \* history: externalIds the status query flipped (server.js:981)
    ev                     \* what the last step did (observation only)

vars == <<pendingTransactions, buckpayIdToExternalId, UTMIFY_TOKEN, now,
          sweepDue, nextOrder, handlers, lazilyExpired, ev>>

---------------------------------------------------------------------------
\* Bounds
MaxOrders == 2
MaxHandlers == 2
MaxTime == 40
MaxMinutes == 46

\* Program constants
TRANSACTION_LIFETIME_MINUTES == 35
CLEANUP_INTERVAL_MINUTES == 5
MIN_AMOUNT_CENTS == 500

\* Identifier spaces.  NoId stands for undefined.
NoId == 0
GwBase == 100
ExternalIds == 1..MaxOrders
Slots == 1..MaxHandlers

\* The gateway's transaction ids are unique: the id returned for the order
\* externalId is GwBase + externalId.
GatewayIdFor(externalId) == GwBase + externalId
BuckpayIds == {GatewayIdFor(e) : e \in ExternalIds}

\* JavaScript values of the numeric webhook fields.
Num(n) == [type |-> "number", val |-> n]
Undef == [type |-> "undefined"]
Str == [type |-> "string"]
NaN == [type |-> "nan"]

Statuses == {"pending", "paid", "expired", "refunded"}

\* Attribute bags (customer, product, offer, tracking) are represented by
\* where their content came from; Null is null or undefined.
Null == "null"
FromCreate == "create"
FromWebhook == "webhook"

\* Inputs of POST /create-payment: amount in whole currency units, or
\* missing, or a string parseFloat turns into NaN.  Every request names a
\* product and no offer.
CreateAmounts == {Undef, Str, Num(4), Num(5)}
CreateRequests == [amount : CreateAmounts, email : BOOLEAN, name : BOOLEAN]

\* Outcomes of the fetch of the gateway's create-transaction endpoint.
GatewayOutcomes == {"ok", "ok_no_id", "no_pix", "http_error", "network_error"}
GatewayErrorStatus == 422

\* Inputs of POST /webhook/buckpay (req.body.data).  The optional fields come
\* in three shapes: none present, total_amount with a smaller fee and the
\* buyer, product and offer objects, and the legacy amount field with a fee
\* equal to it.
WebhookShapes ==
    { [total_amount |-> Undef, amount |-> Undef, gateway_fee |-> Str,
       buyer |-> Null, product |-> Null, offer |-> Null, tracking |-> Null],
      [total_amount |-> Num(1000), amount |-> Undef, gateway_fee |-> Num(200),
       buyer |-> FromWebhook, product |-> FromWebhook, offer |-> FromWebhook,
       tracking |-> FromWebhook],
      [total_amount |-> Undef, amount |-> Num(500), gateway_fee |-> Num(500),
       buyer |-> Null, product |-> Null, offer |-> Null, tracking |-> Null] }
RichShape == CHOOSE f \in WebhookShapes : f.total_amount.type = "number"
BareShape == CHOOSE f \in WebhookShapes : f.gateway_fee = Str
Bodies(ids, statuses, externalIds, shapes) ==
    [id : ids, status : statuses, external_id : externalIds, fields : shapes]
WebhookBodies ==
    Bodies(BuckpayIds \cup {NoId}, Statuses, ExternalIds \cup {NoId}, WebhookShapes)

---------------------------------------------------------------------------
\* Map helpers
Has(m, k) == k \in DOMAIN m
MapSet(m, k, v) == [x \in DOMAIN m \cup {k} |-> IF x = k THEN v ELSE m[x]]
MapDelete(m, k) == [x \in DOMAIN m \ {k} |-> m[x]]
EmptyMap == [x \in {} |-> NoId]

Idle == [pc |-> "idle"]
FreeSlots == {s \in Slots : handlers[s].pc = "idle"}
\* a new request takes the lowest free slot
Slot == CHOOSE s \in FreeSlots : \A t \in FreeSlots : s <= t

NoForward == [status |-> "none"]
NoResponse == 0

---------------------------------------------------------------------------
\* sendToUTMify, lines 545-602: the payload it builds.
CoerceNumber(v) == IF v.type = "number" THEN v.val ELSE 0

UserCommission_NoFloor(status, totalOrderAmount, gatewayFee) ==
    totalOrderAmount - gatewayFee

UserCommission(status, totalOrderAmount, gatewayFee) ==
    LET userCommission == totalOrderAmount - gatewayFee
    IN  IF status = "paid" /\ totalOrderAmount > 0 /\ userCommission <= 0
        THEN 1 ELSE userCommission

BodyForUTMify(orderId, status, d) ==
    LET totalOrderAmount == CoerceNumber(d.amountInCents)
        gatewayFee == CoerceNumber(d.gatewayFee)
    IN  [orderId |-> orderId,
         status |-> status,
         approved |-> (status = "paid"),
         customer |-> IF d.customer = Null THEN "default" ELSE d.customer,
         product |-> IF d.product = Null THEN "default" ELSE d.product,
         offer |-> IF d.offer = Null THEN "default" ELSE d.offer,
         tracking |-> IF d.tracking = Null THEN "default" ELSE d.tracking,
         totalPriceInCents |-> totalOrderAmount,
         gatewayFeeInCents |-> gatewayFee,
         userCommissionInCents |-> UserCommission(status, totalOrderAmount, gatewayFee)]

\* lines 606-611: sendToUTMify goes on to the fetch only with a token;
\* without one it returns false at once
ReachesFetch_Always == TRUE

ReachesFetch == UTMIFY_TOKEN

\* what a caller passes as transactionDataForUTMify from a ledger entry
SnapshotOf(t) ==
    [amountInCents |-> Num(t.amountInCents), gatewayFee |-> Num(t.gatewayFee),
     tracking |-> t.tracking, customer |-> t.customer,
     product |-> t.product, offer |-> t.offer]

---------------------------------------------------------------------------
InitWith(tokens) ==
    /\ pendingTransactions = EmptyMap
    /\ buckpayIdToExternalId = EmptyMap
    /\ UTMIFY_TOKEN \in tokens
    /\ now = 0
    /\ sweepDue = FALSE
    /\ nextOrder = 0
    /\ handlers = [s \in Slots |-> Idle]
    /\ lazilyExpired = {}
    /\ ev = [op |-> "init"]

---------------------------------------------------------------------------
\* POST /create-payment, lines 666-679 and 769-778: validation, then the
\* handler suspends on the gateway call.
AmountInCents_NoScale(amount) ==
    IF amount.type = "number" THEN Num(amount.val) ELSE NaN

AmountInCents(amount) ==
    IF amount.type = "number" THEN Num(amount.val * 100) ELSE NaN

CreatePayment(req) ==
    LET missing == req.amount.type = "undefined" \/ ~req.email \/ ~req.name
        amountInCents == AmountInCents(req.amount)
        invalid == amountInCents = NaN \/ amountInCents.val < MIN_AMOUNT_CENTS
    IN  IF missing \/ invalid
        THEN /\ ev' = [op |-> "create", req |-> req, resp |-> 400, forward |-> NoForward]
             /\ UNCHANGED <<lazilyExpired, pendingTransactions, buckpayIdToExternalId, UTMIFY_TOKEN,
                            now, sweepDue, nextOrder, handlers>>
        ELSE /\ FreeSlots # {}
             /\ nextOrder + Cardinality({s \in Slots : handlers[s].pc = "create_gateway"})
                    < MaxOrders   \* bound: externalIds are 1..MaxOrders
             /\ handlers' = [handlers EXCEPT ![Slot] =
                    [pc |-> "create_gateway", amountInCents |-> amountInCents.val]]
             /\ ev' = [op |-> "create", req |-> req, resp |-> NoResponse,
                       forward |-> NoForward]
             /\ UNCHANGED <<lazilyExpired, pendingTransactions, buckpayIdToExternalId, UTMIFY_TOKEN,
                            now, sweepDue, nextOrder>>

\* line 811: the index after the create handler stored the new entry
IndexAfterCreate_Swapped(buckpayId, externalId) ==
    MapSet(buckpayIdToExternalId, externalId, buckpayId)

IndexAfterCreate(buckpayId, externalId) ==
    MapSet(buckpayIdToExternalId, buckpayId, externalId)

\* lines 780-789, 841 and 846: the answer when no payment was created
CreateFailureStatus_Always500(outcome) == 500

CreateFailureStatus(outcome) ==
    IF outcome = "http_error" THEN GatewayErrorStatus ELSE 500

\* lines 780-847: the gateway call returns.  On success the entry and the index
\* entry are stored and the handler suspends on the waiting_payment forward.
GatewayReturns(s, outcome) ==
    /\ handlers[s].pc = "create_gateway"
    /\ LET h == handlers[s]
           externalId == nextOrder + 1
           buckpayId == IF outcome = "ok" THEN GatewayIdFor(externalId) ELSE NoId
           transactionInfo ==
               [createdAt |-> now, buckpayId |-> buckpayId, status |-> "pending",
                tracking |-> FromCreate, customer |-> FromCreate,
                product |-> FromCreate, offer |-> Null,
                amountInCents |-> h.amountInCents, gatewayFee |-> 0,
                utmifyNotifiedStatus |-> {}]
           forward == BodyForUTMify(externalId, "waiting_payment",
                          [amountInCents |-> Num(h.amountInCents), gatewayFee |-> Num(0),
                           tracking |-> FromCreate, customer |-> FromCreate,
                           product |-> FromCreate, offer |-> Null])
       IN  IF outcome \in {"ok", "ok_no_id"}
           THEN /\ pendingTransactions' = MapSet(pendingTransactions, externalId, transactionInfo)
                /\ buckpayIdToExternalId' = IndexAfterCreate(buckpayId, externalId)
                /\ nextOrder' = externalId
                /\ IF ReachesFetch
                   THEN /\ handlers' = [handlers EXCEPT ![s] =
                               [pc |-> "create_await", externalId |-> externalId]]
                        /\ ev' = [op |-> "gateway", outcome |-> outcome,
                                  externalId |-> externalId,
                                  resp |-> NoResponse, forward |-> forward]
                   ELSE /\ handlers' = [handlers EXCEPT ![s] = Idle]
                        /\ ev' = [op |-> "gateway", outcome |-> outcome,
                                  externalId |-> externalId,
                                  resp |-> 200, forward |-> forward]
                /\ UNCHANGED <<lazilyExpired, UTMIFY_TOKEN, now, sweepDue>>
           ELSE /\ handlers' = [handlers EXCEPT ![s] = Idle]
                /\ ev' = [op |-> "gateway", outcome |-> outcome, externalId |-> NoId,
                          resp |-> CreateFailureStatus(outcome),
                          forward |-> NoForward]
                /\ UNCHANGED <<lazilyExpired, pendingTransactions, buckpayIdToExternalId, UTMIFY_TOKEN,
                               now, sweepDue, nextOrder>>

\* lines 828-830: utmifyNotifiedStatus after the waiting_payment forward
NotifiedAfterCreate_MarkAlways(utmifyNotifiedStatus, sent) ==
    utmifyNotifiedStatus \cup {"waiting_payment"}

NotifiedAfterCreate(utmifyNotifiedStatus, sent) ==
    IF sent THEN utmifyNotifiedStatus \cup {"waiting_payment"}
    ELSE utmifyNotifiedStatus

\* lines 828-838: the waiting_payment forward returns.  utmifyNotifiedStatus is
\* the Map object the ledger entry refers to; once the sweeper has removed the
\* entry the write is invisible.
CreateForwardReturns_Rewrites(s, sent) ==
    /\ handlers[s].pc = "create_await"
    /\ LET externalId == handlers[s].externalId
       IN  /\ pendingTransactions' =
                 IF Has(pendingTransactions, externalId)
                 THEN [pendingTransactions EXCEPT
                           ![externalId].status = "pending",
                           ![externalId].utmifyNotifiedStatus =
                               NotifiedAfterCreate({}, sent)]
                 ELSE pendingTransactions
           /\ handlers' = [handlers EXCEPT ![s] = Idle]
           /\ ev' = [op |-> "create_done", externalId |-> externalId, sent |-> sent,
                     status |-> "waiting_payment", resp |-> 200, forward |-> NoForward]
           /\ UNCHANGED <<lazilyExpired, buckpayIdToExternalId, UTMIFY_TOKEN, now, sweepDue, nextOrder>>

CreateForwardReturns(s, sent) ==
    /\ handlers[s].pc = "create_await"
    /\ LET externalId == handlers[s].externalId
       IN  /\ pendingTransactions' =
                 IF Has(pendingTransactions, externalId)
                 THEN [pendingTransactions EXCEPT ![externalId].utmifyNotifiedStatus =
                           NotifiedAfterCreate(@, sent)]
                 ELSE pendingTransactions
           /\ handlers' = [handlers EXCEPT ![s] = Idle]
           /\ ev' = [op |-> "create_done", externalId |-> externalId, sent |-> sent,
                     status |-> "waiting_payment", resp |-> 200, forward |-> NoForward]
           /\ UNCHANGED <<lazilyExpired, buckpayIdToExternalId, UTMIFY_TOKEN, now, sweepDue, nextOrder>>

---------------------------------------------------------------------------
\* POST /webhook/buckpay, lines 856-880: resolution of the target order by the
\* secondary index, and coercion of the numeric fields.
OrderIdToUseForUTMify_Fallback(data) ==
    IF data.id # NoId /\ Has(buckpayIdToExternalId, data.id)
    THEN buckpayIdToExternalId[data.id] ELSE data.external_id

OrderIdToUseForUTMify(data) ==
    IF data.id # NoId /\ Has(buckpayIdToExternalId, data.id)
    THEN buckpayIdToExternalId[data.id] ELSE NoId

Found(data) ==
    /\ OrderIdToUseForUTMify(data) # NoId
    /\ Has(pendingTransactions, OrderIdToUseForUTMify(data))

GatewayFeeFromWebhook(data) ==
    IF data.fields.gateway_fee.type = "number" THEN data.fields.gateway_fee.val ELSE 0

AmountFromWebhook_TotalOnly(data) ==
    IF data.fields.total_amount.type = "number" THEN data.fields.total_amount.val ELSE 0

AmountFromWebhook(data) ==
    IF data.fields.total_amount.type = "number" THEN data.fields.total_amount.val
    ELSE IF data.fields.amount.type = "number" THEN data.fields.amount.val ELSE 0

\* Variants of ShouldSendToUTMify with a plausible slip each.
ShouldSendToUTMify_PaidAlways(transactionInfo, currentBuckpayStatus) ==
    IF transactionInfo.status # currentBuckpayStatus
    THEN TRUE
    ELSE currentBuckpayStatus = "paid"

ShouldSendToUTMify_Dedup(transactionInfo, currentBuckpayStatus) ==
    ~(currentBuckpayStatus \in transactionInfo.utmifyNotifiedStatus)

ShouldSendToUTMify_NeverRepeat(transactionInfo, currentBuckpayStatus) ==
    transactionInfo.status # currentBuckpayStatus

ShouldSendToUTMify_RetryTerminal(transactionInfo, currentBuckpayStatus) ==
    IF transactionInfo.status # currentBuckpayStatus
    THEN TRUE
    ELSE /\ currentBuckpayStatus \in {"paid", "expired", "refunded"}
         /\ ~(currentBuckpayStatus \in transactionInfo.utmifyNotifiedStatus)

ShouldSendToUTMify_AnyRepeat(transactionInfo, currentBuckpayStatus) ==
    IF transactionInfo.status # currentBuckpayStatus
    THEN TRUE
    ELSE ~(currentBuckpayStatus \in transactionInfo.utmifyNotifiedStatus)

\* lines 922-942: whether a hit is forwarded
ShouldSendToUTMify(transactionInfo, currentBuckpayStatus) ==
    IF transactionInfo.status # currentBuckpayStatus
    THEN TRUE
    ELSE IF currentBuckpayStatus = "paid"
         THEN ~("paid" \in transactionInfo.utmifyNotifiedStatus)
         ELSE FALSE

\* lines 913-928: the ledger entry after the merge and the status update
Merged_StatusNotWritten(transactionInfo, data) ==
    [transactionInfo EXCEPT
        !.gatewayFee = GatewayFeeFromWebhook(data),
        !.amountInCents = AmountFromWebhook(data),
        !.buckpayId = IF data.id # NoId THEN data.id ELSE @,
        !.customer = IF data.fields.buyer # Null THEN data.fields.buyer ELSE @,
        !.product = IF data.fields.product # Null THEN data.fields.product ELSE @,
        !.offer = IF data.fields.offer # Null THEN data.fields.offer ELSE @]

Merged_OverwriteAlways(transactionInfo, data) ==
    [transactionInfo EXCEPT
        !.gatewayFee = GatewayFeeFromWebhook(data),
        !.amountInCents = AmountFromWebhook(data),
        !.buckpayId = IF data.id # NoId THEN data.id ELSE @,
        !.customer = data.fields.buyer,
        !.product = data.fields.product,
        !.offer = data.fields.offer,
        !.tracking = data.fields.tracking,
        !.status = data.status]

Merged_DefaultPending(transactionInfo, data) ==
    [transactionInfo EXCEPT
        !.gatewayFee = GatewayFeeFromWebhook(data),
        !.amountInCents = AmountFromWebhook(data),
        !.buckpayId = IF data.id # NoId THEN data.id ELSE @,
        !.customer = IF data.fields.buyer # Null THEN data.fields.buyer ELSE @,
        !.product = IF data.fields.product # Null THEN data.fields.product ELSE @,
        !.offer = IF data.fields.offer # Null THEN data.fields.offer ELSE @,
        !.status = IF data.status \in {"paid", "refunded"} THEN data.status
                   ELSE "pending"]

Merged_OnlyFromPending(transactionInfo, data) ==
    [transactionInfo EXCEPT
        !.gatewayFee = GatewayFeeFromWebhook(data),
        !.amountInCents = AmountFromWebhook(data),
        !.buckpayId = IF data.id # NoId THEN data.id ELSE @,
        !.customer = IF data.fields.buyer # Null THEN data.fields.buyer ELSE @,
        !.product = IF data.fields.product # Null THEN data.fields.product ELSE @,
        !.offer = IF data.fields.offer # Null THEN data.fields.offer ELSE @,
        !.status = IF @ = "pending" THEN data.status ELSE @]

Merged_ResetCreatedAt(transactionInfo, data) ==
    [transactionInfo EXCEPT
        !.createdAt = now,
        !.gatewayFee = GatewayFeeFromWebhook(data),
        !.amountInCents = AmountFromWebhook(data),
        !.buckpayId = IF data.id # NoId THEN data.id ELSE @,
        !.customer = IF data.fields.buyer # Null THEN data.fields.buyer ELSE @,
        !.product = IF data.fields.product # Null THEN data.fields.product ELSE @,
        !.offer = IF data.fields.offer # Null THEN data.fields.offer ELSE @,
        !.status = data.status]

Merged_KeepAmounts(transactionInfo, data) ==
    [transactionInfo EXCEPT
        !.buckpayId = IF data.id # NoId THEN data.id ELSE @,
        !.customer = IF data.fields.buyer # Null THEN data.fields.buyer ELSE @,
        !.product = IF data.fields.product # Null THEN data.fields.product ELSE @,
        !.offer = IF data.fields.offer # Null THEN data.fields.offer ELSE @,
        !.status = data.status]

Merged(transactionInfo, data) ==
    [transactionInfo EXCEPT
        !.gatewayFee = GatewayFeeFromWebhook(data),
        !.amountInCents = AmountFromWebhook(data),
        !.buckpayId = IF data.id # NoId THEN data.id ELSE @,
        !.customer = IF data.fields.buyer # Null THEN data.fields.buyer ELSE @,
        !.product = IF data.fields.product # Null THEN data.fields.product ELSE @,
        !.offer = IF data.fields.offer # Null THEN data.fields.offer ELSE @,
        !.status = data.status]

\* line 888: a miss is forwarded only when the webhook reports 'paid'
MissForwards_Always(currentBuckpayStatus) == TRUE

MissForwards_UnlessIssued(currentBuckpayStatus) ==
    currentBuckpayStatus = "paid" /\ nextOrder = 0

MissForwards(currentBuckpayStatus) == currentBuckpayStatus = "paid"

\* lines 885-908: the target is not in memory
WebhookMiss(data) ==
    LET orderId == IF OrderIdToUseForUTMify(data) # NoId
                   THEN OrderIdToUseForUTMify(data) ELSE data.id
        forward == BodyForUTMify(orderId, "paid",
                       [amountInCents |-> Num(AmountFromWebhook(data)),
                        gatewayFee |-> Num(GatewayFeeFromWebhook(data)),
                        tracking |-> data.fields.tracking, customer |-> data.fields.buyer,
                        product |-> data.fields.product, offer |-> data.fields.offer])
        seen == [op |-> "webhook", hit |-> FALSE, data |-> data, changed |-> FALSE]
    IN  /\ ~Found(data)
        /\ IF MissForwards(data.status) /\ ReachesFetch
           THEN /\ FreeSlots # {}
                /\ handlers' = [handlers EXCEPT ![Slot] = [pc |-> "webhook_miss_await"]]
                /\ ev' = seen @@ [resp |-> NoResponse, forward |-> forward]
           ELSE /\ handlers' = handlers
                /\ ev' = seen @@ [resp |-> 200,
                                  forward |-> IF MissForwards(data.status) THEN forward
                                              ELSE NoForward]
        /\ UNCHANGED <<lazilyExpired, pendingTransactions, buckpayIdToExternalId, UTMIFY_TOKEN,
                       now, sweepDue, nextOrder>>

\* lines 910-963: the target is in memory
WebhookHit(data) ==
    LET orderId == OrderIdToUseForUTMify(data)
        old == pendingTransactions[orderId]
        transactionInfo == Merged(old, data)
        shouldSendToUTMify == ShouldSendToUTMify(old, data.status)
        forward == BodyForUTMify(orderId, data.status, SnapshotOf(transactionInfo))
        seen == [op |-> "webhook", hit |-> TRUE, data |-> data,
                 changed |-> (old.status # data.status)]
    IN  /\ Found(data)
        /\ pendingTransactions' = [pendingTransactions EXCEPT ![orderId] = transactionInfo]
        /\ IF shouldSendToUTMify /\ ReachesFetch
           THEN /\ FreeSlots # {}
                /\ handlers' = [handlers EXCEPT ![Slot] =
                       [pc |-> "webhook_await", externalId |-> orderId,
                        status |-> data.status]]
                /\ ev' = seen @@ [resp |-> NoResponse, forward |-> forward]
           ELSE /\ handlers' = handlers
                /\ ev' = seen @@ [resp |-> 200,
                                  forward |-> IF shouldSendToUTMify THEN forward
                                              ELSE NoForward]
        /\ UNCHANGED <<lazilyExpired, buckpayIdToExternalId, UTMIFY_TOKEN, now, sweepDue, nextOrder>>

WebhookBuckpay(data) == WebhookMiss(data) \/ WebhookHit(data)

\* line 860 when req.body.data is undefined: data.id throws and the async
\* handler rejects.  Express 4 leaves the rejection unhandled and no response
\* is sent; Express 5 passes it to the default error handler, which answers 500.
WebhookWithoutData ==
    /\ \E resp \in {NoResponse, 500} :
          ev' = [op |-> "webhook_no_data", resp |-> resp, forward |-> NoForward]
    /\ UNCHANGED <<lazilyExpired, pendingTransactions, buckpayIdToExternalId, UTMIFY_TOKEN,
                   now, sweepDue, nextOrder, handlers>>

\* lines 958-960: utmifyNotifiedStatus after the forward returned
NotifiedAfter_Forget(utmifyNotifiedStatus, utmifyStatusToSend, sent) ==
    utmifyNotifiedStatus

NotifiedAfter_Replace(utmifyNotifiedStatus, utmifyStatusToSend, sent) ==
    IF sent THEN {utmifyStatusToSend} ELSE utmifyNotifiedStatus

NotifiedAfter_MarkAlways(utmifyNotifiedStatus, utmifyStatusToSend, sent) ==
    utmifyNotifiedStatus \cup {utmifyStatusToSend}

NotifiedAfter(utmifyNotifiedStatus, utmifyStatusToSend, sent) ==
    IF sent THEN utmifyNotifiedStatus \cup {utmifyStatusToSend}
    ELSE utmifyNotifiedStatus

\* line 963: the answer once the forward returned
ResponseAfterForward_FailOnError(sent) == IF sent THEN 200 ELSE 502

ResponseAfterForward(sent) == 200

\* lines 958-963: the forward of a hit returns
WebhookForwardReturns_Reinserts(s, sent) ==
    /\ handlers[s].pc = "webhook_await"
    /\ LET externalId == handlers[s].externalId
           utmifyStatusToSend == handlers[s].status
       IN  /\ pendingTransactions' =
                 IF Has(pendingTransactions, externalId)
                 THEN [pendingTransactions EXCEPT ![externalId].utmifyNotifiedStatus =
                           NotifiedAfter(@, utmifyStatusToSend, sent)]
                 ELSE MapSet(pendingTransactions, externalId,
                          [createdAt |-> now, buckpayId |-> NoId,
                           status |-> utmifyStatusToSend, tracking |-> Null,
                           customer |-> Null, product |-> Null, offer |-> Null,
                           amountInCents |-> 0, gatewayFee |-> 0,
                           utmifyNotifiedStatus |-> NotifiedAfter({}, utmifyStatusToSend, sent)])
           /\ handlers' = [handlers EXCEPT ![s] = Idle]
           /\ ev' = [op |-> "webhook_done", hit |-> TRUE, externalId |-> externalId,
                     status |-> utmifyStatusToSend, sent |-> sent,
                     resp |-> ResponseAfterForward(sent), forward |-> NoForward]
           /\ UNCHANGED <<lazilyExpired, buckpayIdToExternalId, UTMIFY_TOKEN, now, sweepDue, nextOrder>>

WebhookForwardReturns(s, sent) ==
    /\ handlers[s].pc = "webhook_await"
    /\ LET externalId == handlers[s].externalId
           utmifyStatusToSend == handlers[s].status
       IN  /\ pendingTransactions' =
                 IF Has(pendingTransactions, externalId)
                 THEN [pendingTransactions EXCEPT ![externalId].utmifyNotifiedStatus =
                           NotifiedAfter(@, utmifyStatusToSend, sent)]
                 ELSE pendingTransactions
           /\ handlers' = [handlers EXCEPT ![s] = Idle]
           /\ ev' = [op |-> "webhook_done", hit |-> TRUE, externalId |-> externalId,
                     status |-> utmifyStatusToSend, sent |-> sent,
                     resp |-> ResponseAfterForward(sent), forward |-> NoForward]
           /\ UNCHANGED <<lazilyExpired, buckpayIdToExternalId, UTMIFY_TOKEN, now, sweepDue, nextOrder>>

\* lines 894-907: the forward of a miss returns; its result is ignored
WebhookMissForwardReturns_Retries(s, sent) ==
    /\ handlers[s].pc = "webhook_miss_await"
    /\ handlers' = [handlers EXCEPT ![s] = Idle]
    /\ ev' = [op |-> "webhook_done", hit |-> FALSE, externalId |-> NoId,
              status |-> "paid", sent |-> sent, resp |-> 200,
              forward |-> IF sent THEN NoForward ELSE [status |-> "paid"]]
    /\ UNCHANGED <<lazilyExpired, pendingTransactions, buckpayIdToExternalId, UTMIFY_TOKEN,
                   now, sweepDue, nextOrder>>

WebhookMissForwardReturns(s, sent) ==
    /\ handlers[s].pc = "webhook_miss_await"
    /\ handlers' = [handlers EXCEPT ![s] = Idle]
    /\ ev' = [op |-> "webhook_done", hit |-> FALSE, externalId |-> NoId,
              status |-> "paid", sent |-> sent, resp |-> 200, forward |-> NoForward]
    /\ UNCHANGED <<lazilyExpired, pendingTransactions, buckpayIdToExternalId, UTMIFY_TOKEN,
                   now, sweepDue, nextOrder>>

---------------------------------------------------------------------------
\* GET /check-order-status, lines 967-992
ElapsedTimeMinutes(transactionInfo) == now - transactionInfo.createdAt

\* line 980: a pending order older than the lifetime is expired by the read
LazilyExpired_AtThreshold(transactionInfo) ==
    /\ transactionInfo.status = "pending"
    /\ ElapsedTimeMinutes(transactionInfo) >= TRANSACTION_LIFETIME_MINUTES

LazilyExpired(transactionInfo) ==
    /\ transactionInfo.status = "pending"
    /\ ElapsedTimeMinutes(transactionInfo) > TRANSACTION_LIFETIME_MINUTES

\* lines 974-990: the status the query reports
QueryStatus_PendingWhenAbsent(externalId) ==
    IF Has(pendingTransactions, externalId)
    THEN IF LazilyExpired(pendingTransactions[externalId])
         THEN "expired" ELSE pendingTransactions[externalId].status
    ELSE "pending"

QueryStatus(externalId) ==
    IF Has(pendingTransactions, externalId)
    THEN IF LazilyExpired(pendingTransactions[externalId])
         THEN "expired" ELSE pendingTransactions[externalId].status
    ELSE "not_found_or_expired"

CheckOrderStatus_DeletesExpired(externalId) ==
    /\ ev' = [op |-> "query", id |-> externalId,
              resp |-> IF externalId = NoId THEN 400 ELSE 200,
              status |-> IF externalId = NoId THEN "none" ELSE QueryStatus(externalId),
              flipped |-> FALSE, forward |-> NoForward]
    /\ pendingTransactions' =
           IF /\ externalId # NoId
              /\ Has(pendingTransactions, externalId)
              /\ LazilyExpired(pendingTransactions[externalId])
           THEN MapDelete(pendingTransactions, externalId)
           ELSE pendingTransactions
    /\ UNCHANGED <<lazilyExpired, buckpayIdToExternalId, UTMIFY_TOKEN, now, sweepDue,
                   nextOrder, handlers>>

CheckOrderStatus(externalId) ==
    IF externalId = NoId
    THEN /\ ev' = [op |-> "query", id |-> externalId, resp |-> 400,
                   status |-> "none", flipped |-> FALSE, forward |-> NoForward]
         /\ UNCHANGED <<lazilyExpired, pendingTransactions, buckpayIdToExternalId, UTMIFY_TOKEN,
                        now, sweepDue, nextOrder, handlers>>
    ELSE IF Has(pendingTransactions, externalId)
    THEN LET status == QueryStatus(externalId)
         IN  /\ pendingTransactions' =
                    [pendingTransactions EXCEPT ![externalId].status = status]
             /\ ev' = [op |-> "query", id |-> externalId, resp |-> 200,
                       status |-> status,
                       flipped |-> LazilyExpired(pendingTransactions[externalId]),
                       forward |-> NoForward]
             /\ lazilyExpired' =
                    IF LazilyExpired(pendingTransactions[externalId])
                    THEN lazilyExpired \cup {externalId} ELSE lazilyExpired
             /\ UNCHANGED <<buckpayIdToExternalId, UTMIFY_TOKEN, now, sweepDue,
                            nextOrder, handlers>>
    ELSE /\ ev' = [op |-> "query", id |-> externalId, resp |-> 200,
                   status |-> QueryStatus(externalId), flipped |-> FALSE,
                   forward |-> NoForward]
         /\ UNCHANGED <<lazilyExpired, pendingTransactions, buckpayIdToExternalId, UTMIFY_TOKEN,
                        now, sweepDue, nextOrder, handlers>>

---------------------------------------------------------------------------
\* cleanupTransactionsInMemory, lines 515-538: one pass of the sweeper
Removed_AtThreshold(transactionInfo) ==
    ElapsedTimeMinutes(transactionInfo) >= TRANSACTION_LIFETIME_MINUTES

Removed_SettledOnly(transactionInfo) ==
    /\ transactionInfo.status # "pending"
    /\ ElapsedTimeMinutes(transactionInfo) > TRANSACTION_LIFETIME_MINUTES

Removed(transactionInfo) ==
    \/ /\ transactionInfo.status # "pending"
       /\ ElapsedTimeMinutes(transactionInfo) > TRANSACTION_LIFETIME_MINUTES
    \/ /\ transactionInfo.status = "pending"
       /\ ElapsedTimeMinutes(transactionInfo) > TRANSACTION_LIFETIME_MINUTES

CleanupTransactionsInMemory ==
    LET gone == {e \in DOMAIN pendingTransactions : Removed(pendingTransactions[e])}
        keys == {pendingTransactions[e].buckpayId : e \in gone} \ {NoId}
    IN  /\ sweepDue
        /\ sweepDue' = FALSE
        /\ pendingTransactions' =
               [e \in DOMAIN pendingTransactions \ gone |-> pendingTransactions[e]]
        /\ buckpayIdToExternalId' =
               [k \in DOMAIN buckpayIdToExternalId \ keys |-> buckpayIdToExternalId[k]]
        /\ ev' = [op |-> "sweep", removed |-> gone, forward |-> NoForward]
        /\ UNCHANGED <<lazilyExpired, UTMIFY_TOKEN, now, nextOrder, handlers>>

\* setInterval(cleanupTransactionsInMemory, CLEANUP_INTERVAL_MS), line 540:
\* the clock advances to the next firing of the timer.  Every age is at most
\* the lifetime until minute 35, so the passes before it remove nothing and no
\* handler behaves differently: the first seven intervals pass in one step.
NextFiring ==
    IF now < TRANSACTION_LIFETIME_MINUTES
    THEN TRANSACTION_LIFETIME_MINUTES
    ELSE now + CLEANUP_INTERVAL_MINUTES

Tick ==
    /\ ~sweepDue
    /\ NextFiring <= MaxTime
    /\ now' = NextFiring
    /\ sweepDue' = TRUE
    /\ ev' = [op |-> "tick", forward |-> NoForward]
    /\ UNCHANGED <<lazilyExpired, pendingTransactions, buckpayIdToExternalId, UTMIFY_TOKEN,
                   nextOrder, handlers>>

\* The same timer with the clock advancing minute by minute: it fires at every
\* multiple of the interval and the callback runs before the next minute.
Minute ==
    /\ ~sweepDue
    /\ now < MaxMinutes
    /\ now' = now + 1
    /\ sweepDue' = (now' % CLEANUP_INTERVAL_MINUTES = 0)
    /\ ev' = [op |-> "minute", forward |-> NoForward]
    /\ UNCHANGED <<lazilyExpired, pendingTransactions, buckpayIdToExternalId, UTMIFY_TOKEN,
                   nextOrder, handlers>>

---------------------------------------------------------------------------
\* Specifications.  Each draws the requests from its own sets and schedules
\* the handlers its claims are about.
Quiet == \A s \in Slots : handlers[s].pc = "idle"
Creating == Cardinality({s \in Slots : handlers[s].pc = "create_gateway"})
FirstOrder == nextOrder + Creating = 0

Returns ==
    \/ \E s \in Slots, outcome \in GatewayOutcomes : GatewayReturns(s, outcome)
    \/ \E s \in Slots, sent \in BOOLEAN : CreateForwardReturns(s, sent)
    \/ \E s \in Slots, sent \in BOOLEAN : WebhookForwardReturns(s, sent)
    \/ \E s \in Slots, sent \in BOOLEAN : WebhookMissForwardReturns(s, sent)

\* Spec: one order, one request at a time, every webhook body, no clock.
Init == InitWith(BOOLEAN)

Next ==
    \/ \E req \in CreateRequests : Quiet /\ FirstOrder /\ CreatePayment(req)
    \/ \E data \in WebhookBodies : Quiet /\ WebhookBuckpay(data)
    \/ Quiet /\ WebhookWithoutData
    \/ \E externalId \in ExternalIds \cup {NoId} : Quiet /\ CheckOrderStatus(externalId)
    \/ Returns

Spec == Init /\ [][Next]_vars

\* SpecExpiry: one order, one request at a time, the clock and the sweeper,
\* webhooks of every status in the rich shape.
ExpiryBodies == Bodies(BuckpayIds \cup {NoId}, Statuses, {NoId}, {RichShape})

InitToken == InitWith({TRUE})

NextExpiry ==
    \/ \E req \in CreateRequests : Quiet /\ FirstOrder /\ CreatePayment(req)
    \/ \E data \in ExpiryBodies : Quiet /\ WebhookBuckpay(data)
    \/ \E externalId \in ExternalIds \cup {NoId} : Quiet /\ CheckOrderStatus(externalId)
    \/ Returns
    \/ CleanupTransactionsInMemory
    \/ Tick

SpecExpiry == InitToken /\ [][NextExpiry]_vars

\* SpecOrders: several orders, one request at a time, the clock and the
\* sweeper, 'paid' webhooks only.
OrdersBodies == Bodies(BuckpayIds \cup {NoId}, {"paid"}, {NoId}, {RichShape})

NextOrders ==
    \/ \E req \in CreateRequests : Quiet /\ CreatePayment(req)
    \/ \E data \in OrdersBodies : Quiet /\ WebhookBuckpay(data)
    \/ \E externalId \in ExternalIds \cup {NoId} : Quiet /\ CheckOrderStatus(externalId)
    \/ Returns
    \/ CleanupTransactionsInMemory
    \/ Tick

SpecOrders == InitToken /\ [][NextOrders]_vars

\* SpecSweep: one order created at any minute, one request at a time, the
\* clock in minutes and the sweeper, 'paid' webhooks for that order.
SweepBodies == Bodies({GatewayIdFor(1)}, {"paid"}, {NoId}, {RichShape})

NextSweep ==
    \/ \E req \in CreateRequests : Quiet /\ FirstOrder /\ CreatePayment(req)
    \/ \E data \in SweepBodies : Quiet /\ WebhookBuckpay(data)
    \/ \E externalId \in ExternalIds : Quiet /\ CheckOrderStatus(externalId)
    \/ Returns
    \/ CleanupTransactionsInMemory
    \/ Minute

SpecSweep == InitToken /\ [][NextSweep]_vars

\* SpecAmounts: one order, one request at a time, no clock, 'paid' and
\* 'refunded' webhooks whose total_amount, amount and fees.gateway_fee are
\* absent, not numbers, or numbers below, equal to and above one another.
AmountShapes ==
    [total_amount : {Undef, Str, Num(500), Num(1000)},
     amount : {Undef, Num(700)},
     gateway_fee : {Undef, Num(200), Num(500), Num(1200)},
     buyer : {Null}, product : {Null}, offer : {Null}, tracking : {Null}]
AmountBodies ==
    Bodies({GatewayIdFor(1), NoId}, {"paid", "refunded"}, {NoId}, AmountShapes)

NextAmounts ==
    \/ \E req \in CreateRequests : Quiet /\ FirstOrder /\ CreatePayment(req)
    \/ \E data \in AmountBodies : Quiet /\ WebhookBuckpay(data)
    \/ Returns

SpecAmounts == InitToken /\ [][NextAmounts]_vars

\* SpecNoToken: as SpecExpiry with no token configured; no handler waits for a
\* forward, so none returns.
InitNoToken == InitWith({FALSE})

NextNoToken ==
    \/ \E req \in CreateRequests : Quiet /\ FirstOrder /\ CreatePayment(req)
    \/ \E data \in ExpiryBodies : Quiet /\ WebhookBuckpay(data)
    \/ \E externalId \in ExternalIds \cup {NoId} : Quiet /\ CheckOrderStatus(externalId)
    \/ \E s \in Slots, outcome \in GatewayOutcomes : GatewayReturns(s, outcome)
    \/ CleanupTransactionsInMemory
    \/ Tick

SpecNoToken == InitNoToken /\ [][NextNoToken]_vars

\* SpecFrame: several orders, one request at a time, no clock; 'paid'
\* webhooks with and without the optional fields.
FrameBodies == Bodies(BuckpayIds, {"paid"}, {NoId}, {RichShape, BareShape})

NextFrame ==
    \/ \E req \in CreateRequests : Quiet /\ CreatePayment(req)
    \/ \E data \in FrameBodies : Quiet /\ WebhookBuckpay(data)
    \/ Returns

SpecFrame == InitToken /\ [][NextFrame]_vars

\* SpecOverlap: one order, no clock; a webhook may start while other handlers
\* are suspended at the await of their forward.
OverlapBodies == Bodies({GatewayIdFor(1)}, {"paid", "refunded"}, {NoId}, {RichShape})

NextOverlap ==
    \/ \E req \in CreateRequests : Quiet /\ FirstOrder /\ CreatePayment(req)
    \/ \E data \in OverlapBodies : WebhookBuckpay(data)
    \/ Returns

SpecOverlap == InitToken /\ [][NextOverlap]_vars

---------------------------------------------------------------------------
\* Properties.  ev is what the last step did; in an action property ev' is
\* the step being taken and the unprimed variables are the state before it.
IndexResolves(id) ==
    /\ id # NoId
    /\ id \in DOMAIN buckpayIdToExternalId
    /\ buckpayIdToExternalId[id] \in DOMAIN pendingTransactions

TargetOf(id) == buckpayIdToExternalId[id]
NotifiedOf(externalId) == pendingTransactions[externalId].utmifyNotifiedStatus

\* C1 as stated: once 'paid' is in an order's notifiedStatuses, no webhook
\* for that order triggers a forward with status 'paid' again.
C1_NeverPaidAgain ==
    (ev.op = "webhook" /\ ev.hit /\ ev.forward.status = "paid")
        => ~("paid" \in NotifiedOf(TargetOf(ev.data.id)))

\* C1 amended: once 'paid' is in an order's notifiedStatuses, a webhook for
\* that order triggers a 'paid' forward only if the ledger status it finds is
\* not 'paid' (a status change, as in paid -> refunded -> paid).
C1_PaidAgainOnlyOnChange ==
    [][ (/\ ev'.op = "webhook" /\ ev'.hit /\ ev'.forward.status = "paid"
         /\ "paid" \in NotifiedOf(TargetOf(ev'.data.id)))
        => pendingTransactions[TargetOf(ev'.data.id)].status # "paid" ]_vars

C1_Witness ==
    /\ ev.op = "webhook" /\ ev.hit /\ ev.data.status = "paid"
    /\ ev.forward.status = "none"
    /\ "paid" \in NotifiedOf(TargetOf(ev.data.id))

\* C2: when a 'paid' webhook's forward has succeeded and the next request is
\* another 'paid' webhook for the same order, the second one forwards nothing
\* and leaves status and notifiedStatuses as they are.
C2_SecondPaidSuppressed ==
    [][ (/\ ev.op = "webhook_done" /\ ev.hit /\ ev.sent /\ ev.status = "paid"
         /\ Has(pendingTransactions, ev.externalId)
         /\ ev'.op = "webhook" /\ ev'.hit /\ ev'.data.status = "paid"
         /\ TargetOf(ev'.data.id) = ev.externalId)
        => /\ ev'.forward.status = "none"
           /\ pendingTransactions'[ev.externalId].status = "paid"
           /\ pendingTransactions'[ev.externalId].utmifyNotifiedStatus
                  = NotifiedOf(ev.externalId) ]_vars

C2_Witness ==
    /\ ev.op = "webhook" /\ ev.hit /\ ~ev.changed /\ ev.data.status = "paid"
    /\ ev.forward.status = "none" /\ ev.resp = 200
    /\ pendingTransactions[TargetOf(ev.data.id)].status = "paid"

\* C3: a hit whose status differs from the ledger status sets the ledger status
\* to the webhook's and attempts one forward of that status for that order,
\* whatever notifiedStatuses holds.
C3_ChangeAlwaysForwards ==
    [][ (/\ ev'.op = "webhook" /\ ev'.hit
         /\ pendingTransactions[TargetOf(ev'.data.id)].status # ev'.data.status)
        => /\ pendingTransactions'[TargetOf(ev'.data.id)].status = ev'.data.status
           /\ ev'.forward.status = ev'.data.status
           /\ ev'.forward.orderId = TargetOf(ev'.data.id) ]_vars

C3_Witness ==
    /\ ev.op = "webhook" /\ ev.hit /\ ev.changed /\ ev.data.status = "refunded"
    /\ ev.forward.status = "refunded"
    /\ ~("refunded" \in NotifiedOf(TargetOf(ev.data.id)))

\* C4: a hit whose status equals the ledger status is forwarded iff the status
\* is 'paid' and 'paid' is not in notifiedStatuses; it never changes status
\* or notifiedStatuses.
C4_RepeatForwardsOnlyUnnotifiedPaid ==
    [][ (/\ ev'.op = "webhook" /\ ev'.hit
         /\ pendingTransactions[TargetOf(ev'.data.id)].status = ev'.data.status)
        => LET o == TargetOf(ev'.data.id)
               retry == ev'.data.status = "paid" /\ ~("paid" \in NotifiedOf(o))
           IN  /\ IF retry
                  THEN ev'.forward.status = "paid" /\ ev'.forward.orderId = o
                  ELSE ev'.forward.status = "none"
               /\ pendingTransactions'[o].status = pendingTransactions[o].status
               /\ pendingTransactions'[o].utmifyNotifiedStatus = NotifiedOf(o) ]_vars

C4_Witness ==
    /\ ev.op = "webhook" /\ ev.hit /\ ~ev.changed /\ ev.data.status = "refunded"
    /\ ev.forward.status = "none"

\* C5: a miss with status 'paid' attempts one forward, of 'paid', keyed by the
\* webhook's gateway id and carrying the webhook's own amount, fee, buyer,
\* product, offer and tracking; a miss with another status attempts none; the
\* answer is 200.
C5_MissForwardsOnlyPaid ==
    /\ (ev.op = "webhook" /\ ~ev.hit) =>
          LET f == ev.data.fields
              total == IF f.total_amount.type = "number" THEN f.total_amount.val
                       ELSE IF f.amount.type = "number" THEN f.amount.val ELSE 0
              fee == IF f.gateway_fee.type = "number" THEN f.gateway_fee.val ELSE 0
              own(x) == IF x = Null THEN "default" ELSE FromWebhook
          IN  IF ev.data.status = "paid"
              THEN /\ ev.forward.status = "paid"
                   /\ ev.forward.orderId = ev.data.id
                   /\ ev.forward.totalPriceInCents = total
                   /\ ev.forward.gatewayFeeInCents = fee
                   /\ ev.forward.customer = own(f.buyer)
                   /\ ev.forward.product = own(f.product)
                   /\ ev.forward.offer = own(f.offer)
                   /\ ev.forward.tracking = own(f.tracking)
                   /\ \/ ev.resp = 200
                      \/ /\ ev.resp = NoResponse
                         /\ \E s \in Slots : handlers[s].pc = "webhook_miss_await"
              ELSE ev.forward.status = "none" /\ ev.resp = 200
    /\ (ev.op = "webhook_done" /\ ~ev.hit) => ev.resp = 200

C5_Witness ==
    /\ ev.op = "webhook" /\ ~ev.hit /\ ev.data.id # NoId
    /\ ev.forward.status = "paid" /\ ev.forward.orderId = ev.data.id
    /\ pendingTransactions # EmptyMap

\* C6: a webhook handler answers 200 and nothing else: at once when it makes
\* no forward, and when its forward returns otherwise, sent or not.
C6_WebhookAlways200 ==
    /\ ev.op = "webhook" =>
          \/ ev.resp = 200
          \/ /\ ev.resp = NoResponse
             /\ \E s \in Slots : handlers[s].pc \in {"webhook_await", "webhook_miss_await"}
    /\ ev.op = "webhook_done" => ev.resp = 200

C6_Witness ==
    ev.op = "webhook_done" /\ ev.hit /\ ~ev.sent /\ ev.resp = 200

\* C7: when the forward of a hit returns, the ledger entry keeps everything the
\* webhook wrote; the forwarded status joins notifiedStatuses iff the forward
\* succeeded.
C7_NoRollback ==
    [][ (ev'.op = "webhook_done" /\ ev'.hit /\ Has(pendingTransactions, ev'.externalId))
        => LET o == ev'.externalId
           IN  /\ pendingTransactions' =
                     [pendingTransactions EXCEPT ![o].utmifyNotifiedStatus =
                         IF ev'.sent THEN @ \cup {ev'.status} ELSE @]
               /\ pendingTransactions'[o].status = ev'.status ]_vars

C7_Witness ==
    /\ ev.op = "webhook_done" /\ ev.hit /\ ~ev.sent
    /\ Has(pendingTransactions, ev.externalId)
    /\ pendingTransactions[ev.externalId].status = ev.status
    /\ pendingTransactions[ev.externalId].gatewayFee = 200
    /\ ~(ev.status \in NotifiedOf(ev.externalId))

\* C8 as stated: after a failed forward of S, the next webhook for the order
\* with the same status S forwards S again, whatever S is.
C8_RetryAnyStatus ==
    [][ (/\ ev.op = "webhook_done" /\ ev.hit /\ ~ev.sent
         /\ Has(pendingTransactions, ev.externalId)
         /\ ev'.op = "webhook" /\ ev'.hit /\ ev'.data.status = ev.status
         /\ TargetOf(ev'.data.id) = ev.externalId)
        => ev'.forward.status = ev.status ]_vars

\* C8 amended: after a failed forward of S, the next webhook for the order with
\* the same status S forwards S again only if S is 'paid' and 'paid' is not in
\* notifiedStatuses; otherwise it forwards nothing.
C8_RetryOnlyUnnotifiedPaid ==
    [][ (/\ ev.op = "webhook_done" /\ ev.hit /\ ~ev.sent
         /\ Has(pendingTransactions, ev.externalId)
         /\ ev'.op = "webhook" /\ ev'.hit /\ ev'.data.status = ev.status
         /\ TargetOf(ev'.data.id) = ev.externalId)
        => ev'.forward.status =
              IF ev.status = "paid" /\ ~("paid" \in NotifiedOf(ev.externalId))
              THEN "paid" ELSE "none" ]_vars

C8_Witness ==
    /\ ev.op = "webhook" /\ ev.hit /\ ~ev.changed
    /\ ev.forward.status = "paid"
    /\ ~("paid" \in NotifiedOf(TargetOf(ev.data.id)))

IndexConsistent ==
    /\ \A o \in DOMAIN pendingTransactions :
          pendingTransactions[o].buckpayId # NoId =>
              /\ Has(buckpayIdToExternalId, pendingTransactions[o].buckpayId)
              /\ buckpayIdToExternalId[pendingTransactions[o].buckpayId] = o
    /\ \A o1, o2 \in DOMAIN pendingTransactions :
          (o1 # o2 /\ pendingTransactions[o1].buckpayId # NoId)
              => pendingTransactions[o1].buckpayId # pendingTransactions[o2].buckpayId

GatewayIdStable ==
    \A o \in DOMAIN pendingTransactions \cap DOMAIN pendingTransactions' :
        pendingTransactions'[o].buckpayId = pendingTransactions[o].buckpayId

C10_IndexOneToOne == []IndexConsistent /\ [][GatewayIdStable]_vars

C10_Witness ==
    /\ Cardinality(DOMAIN pendingTransactions) = 2
    /\ \A o \in DOMAIN pendingTransactions : pendingTransactions[o].buckpayId # NoId
    /\ ev.op = "webhook" /\ ev.hit

\* C11: every key of the index maps to an order that is in the ledger.
C11_NoDanglingIndex ==
    \A k \in DOMAIN buckpayIdToExternalId :
        buckpayIdToExternalId[k] \in DOMAIN pendingTransactions

\* C12: right after a pass of the sweeper no entry of the ledger is older than
\* the lifetime, whatever its status; and with a pass every interval no entry
\* is ever in the ledger at an age above the lifetime plus one interval.
C12_SweepBoundsAge ==
    /\ ev.op = "sweep" =>
          \A e \in DOMAIN pendingTransactions :
              now - pendingTransactions[e].createdAt <= TRANSACTION_LIFETIME_MINUTES
    /\ \A e \in DOMAIN pendingTransactions :
          now - pendingTransactions[e].createdAt
              <= TRANSACTION_LIFETIME_MINUTES + CLEANUP_INTERVAL_MINUTES

C12_Witness ==
    /\ ev.op = "sweep" /\ ev.removed # {}
    /\ now = TRANSACTION_LIFETIME_MINUTES + CLEANUP_INTERVAL_MINUTES
    /\ nextOrder = 1 /\ pendingTransactions = EmptyMap

\* C13: when a valid create request is followed by a gateway success with a
\* PIX code, an entry is stored under a fresh orderId with status 'pending',
\* fee 0, the requested amount in cents and no notified status, and one
\* 'waiting_payment' forward is attempted for it; when that forward returns,
\* 'waiting_payment' is recorded iff it was sent, and the answer is 200.
C13_CreateStoresPending ==
    [][ /\ (/\ ev.op = "create" /\ ev.resp = NoResponse
            /\ ev'.op = "gateway" /\ ev'.outcome \in {"ok", "ok_no_id"})
           => LET e == ev'.externalId
              IN  /\ e # NoId
                  /\ ~Has(pendingTransactions, e)
                  /\ Has(pendingTransactions', e)
                  /\ pendingTransactions'[e].status = "pending"
                  /\ pendingTransactions'[e].gatewayFee = 0
                  /\ pendingTransactions'[e].amountInCents = ev.req.amount.val * 100
                  /\ pendingTransactions'[e].utmifyNotifiedStatus = {}
                  /\ ev'.forward.status = "waiting_payment"
                  /\ ev'.forward.orderId = e
                  /\ ev'.resp = IF UTMIFY_TOKEN THEN NoResponse ELSE 200
        /\ (ev'.op = "create_done" /\ Has(pendingTransactions, ev'.externalId))
           => /\ pendingTransactions'[ev'.externalId].utmifyNotifiedStatus =
                     NotifiedOf(ev'.externalId) \cup
                         (IF ev'.sent THEN {"waiting_payment"} ELSE {})
              /\ ev'.resp = 200 ]_vars

C13_Witness ==
    /\ ev.op = "create_done" /\ ~ev.sent /\ ev.resp = 200
    /\ Has(pendingTransactions, ev.externalId)
    /\ pendingTransactions[ev.externalId].status = "pending"
    /\ NotifiedOf(ev.externalId) = {}

\* C14: a query for a live order that is 'pending' and older than the lifetime
\* answers 'expired' and leaves the entry in the ledger with status 'expired';
\* any other query for a live order answers the stored status and changes
\* nothing.  The index is never touched.
C14_LazyExpiry ==
    [][ (ev'.op = "query" /\ ev'.id # NoId /\ Has(pendingTransactions, ev'.id))
        => LET t == pendingTransactions[ev'.id]
           IN  /\ ev'.resp = 200
               /\ buckpayIdToExternalId' = buckpayIdToExternalId
               /\ IF t.status = "pending"
                     /\ now - t.createdAt > TRANSACTION_LIFETIME_MINUTES
                  THEN /\ ev'.status = "expired"
                       /\ pendingTransactions' =
                             [pendingTransactions EXCEPT ![ev'.id].status = "expired"]
                  ELSE /\ ev'.status = t.status
                       /\ pendingTransactions' = pendingTransactions ]_vars

C14_Witness ==
    /\ ev.op = "query" /\ ev.status = "expired"
    /\ Has(pendingTransactions, ev.id)
    /\ pendingTransactions[ev.id].status = "expired"
    /\ pendingTransactions[ev.id].gatewayFee = 0
    /\ now - pendingTransactions[ev.id].createdAt > TRANSACTION_LIFETIME_MINUTES
    /\ Has(buckpayIdToExternalId, pendingTransactions[ev.id].buckpayId)

\* C15: a query for an id that is not in the ledger answers 200 with
\* 'not_found_or_expired' and changes neither the ledger nor the index.
C15_QueryAbsent ==
    [][ (ev'.op = "query" /\ ev'.id # NoId /\ ~Has(pendingTransactions, ev'.id))
        => /\ ev'.resp = 200
           /\ ev'.status = "not_found_or_expired"
           /\ pendingTransactions' = pendingTransactions
           /\ buckpayIdToExternalId' = buckpayIdToExternalId ]_vars

C15_Witness ==
    /\ ev.op = "query" /\ ev.status = "not_found_or_expired"
    /\ ev.id = 1 /\ nextOrder = 1
    /\ pendingTransactions = EmptyMap

\* the last step called sendToUTMify
Forwarded == ev.op \in {"webhook", "gateway"} /\ ev.forward.status # "none"

\* C16: every forward carries the commission total - fee, except that a 'paid'
\* forward with total > 0 and total - fee <= 0 carries 1; so a 'paid' forward
\* with total > 0 carries at least 1, and no other forward is floored.
C16_CommissionFloor ==
    Forwarded =>
        LET f == ev.forward
            c == f.totalPriceInCents - f.gatewayFeeInCents
        IN  /\ f.userCommissionInCents =
                  IF f.status = "paid" /\ f.totalPriceInCents > 0 /\ c <= 0
                  THEN 1 ELSE c
            /\ (f.status = "paid" /\ f.totalPriceInCents > 0)
                   => f.userCommissionInCents >= 1

C16_Witness ==
    /\ Forwarded /\ ev.forward.status = "paid"
    /\ ev.forward.totalPriceInCents = 500 /\ ev.forward.gatewayFeeInCents = 500
    /\ ev.forward.userCommissionInCents = 1

\* C17: after a hit whose total_amount A and fees.gateway_fee F are numbers the
\* entry holds amount A and fee F, and the forward the handler makes carries A,
\* F and the commission A - F (floored to 1 for 'paid' with A > 0, A - F <= 0).
C17_ForwardUsesMergedAmounts ==
    (/\ ev.op = "webhook" /\ ev.hit
     /\ ev.data.fields.total_amount.type = "number"
     /\ ev.data.fields.gateway_fee.type = "number")
        => LET A == ev.data.fields.total_amount.val
               F == ev.data.fields.gateway_fee.val
               t == pendingTransactions[TargetOf(ev.data.id)]
           IN  /\ t.amountInCents = A
               /\ t.gatewayFee = F
               /\ ev.forward.status # "none" =>
                     /\ ev.forward.totalPriceInCents = A
                     /\ ev.forward.gatewayFeeInCents = F
                     /\ ev.forward.userCommissionInCents =
                           IF ev.forward.status = "paid" /\ A > 0 /\ A - F <= 0
                           THEN 1 ELSE A - F

C17_Witness ==
    /\ ev.op = "webhook" /\ ev.hit /\ ev.forward.status = "paid"
    /\ ev.data.fields.total_amount = Num(1000)
    /\ ev.data.fields.gateway_fee = Num(200)
    /\ ev.forward.userCommissionInCents = 800
    /\ pendingTransactions[TargetOf(ev.data.id)].status = "paid"

\* C18: the stored amount and fee of every live order and the total, fee and
\* commission of every forward are numbers; a hit stores total_amount if it is
\* a number, else amount if it is a number, else 0, and stores the fee if it
\* is a number, else 0, whatever was stored before.
C18_AmountsAreNumbers ==
    /\ \A e \in DOMAIN pendingTransactions :
          /\ pendingTransactions[e].amountInCents \in Int
          /\ pendingTransactions[e].gatewayFee \in Int
    /\ Forwarded =>
          /\ ev.forward.totalPriceInCents \in Int
          /\ ev.forward.gatewayFeeInCents \in Int
          /\ ev.forward.userCommissionInCents \in Int
    /\ (ev.op = "webhook" /\ ev.hit) =>
          LET f == ev.data.fields
              t == pendingTransactions[TargetOf(ev.data.id)]
          IN  /\ t.amountInCents =
                    IF f.total_amount.type = "number" THEN f.total_amount.val
                    ELSE IF f.amount.type = "number" THEN f.amount.val ELSE 0
              /\ t.gatewayFee =
                    IF f.gateway_fee.type = "number" THEN f.gateway_fee.val ELSE 0

C18_Witness ==
    /\ ev.op = "webhook" /\ ev.hit
    /\ ev.data.fields.total_amount = Str /\ ev.data.fields.amount = Undef
    /\ ev.data.fields.gateway_fee = Undef
    /\ pendingTransactions[TargetOf(ev.data.id)].amountInCents = 0
    /\ pendingTransactions[TargetOf(ev.data.id)].gatewayFee = 0
    /\ ev.forward.status = "refunded" /\ ev.forward.userCommissionInCents = 0

\* C19: a 'paid' webhook that starts while the 'paid' forward of another
\* handler for the same order is in flight makes no 'paid' forward.
C19_PaidOnceUnderOverlap ==
    [][ (/\ ev'.op = "webhook" /\ ev'.hit /\ ev'.data.status = "paid"
         /\ \E s \in Slots :
               /\ handlers[s].pc = "webhook_await"
               /\ handlers[s].externalId = TargetOf(ev'.data.id)
               /\ handlers[s].status = "paid")
        => ev'.forward.status = "none" ]_vars

\* C20: once the status of a live order is not 'pending', no step sets it back
\* to 'pending'.
C20_StatusNeverBackToPending ==
    [][ \A e \in DOMAIN pendingTransactions \cap DOMAIN pendingTransactions' :
            pendingTransactions[e].status # "pending"
                => pendingTransactions'[e].status # "pending" ]_vars

\* C21: a gateway answer that is a non-success response, a success without a
\* PIX code or a network failure stores nothing in the ledger or the index
\* and makes no forward; the non-success response is relayed with its status.
C21_CreateFailureStoresNothing ==
    [][ (ev'.op = "gateway"
         /\ ev'.outcome \in {"http_error", "no_pix", "network_error"})
        => /\ pendingTransactions' = pendingTransactions
           /\ buckpayIdToExternalId' = buckpayIdToExternalId
           /\ ev'.forward.status = "none"
           /\ \A s \in Slots : handlers'[s].pc # "create_await"
           /\ ev'.outcome = "http_error" => ev'.resp = GatewayErrorStatus
           /\ ev'.outcome # "http_error" => ev'.resp = 500 ]_vars

C21_Witness ==
    /\ ev.op = "gateway" /\ ev.outcome = "http_error"
    /\ ev.resp = GatewayErrorStatus
    /\ pendingTransactions = EmptyMap /\ buckpayIdToExternalId = EmptyMap

\* C22: a create request without amount, email or name, or whose amount is no
\* number or fewer than 500 cents, is answered 400 with no gateway call, no
\* change of the ledger or the index and no forward; 500 cents are accepted.
C22_CreateValidation ==
    [][ ev'.op = "create"
        => LET req == ev'.req
               cents == IF req.amount.type = "number" THEN req.amount.val * 100 ELSE -1
               rejected == ~req.email \/ ~req.name \/ cents < 500
           IN  IF rejected
               THEN /\ ev'.resp = 400
                    /\ ev'.forward.status = "none"
                    /\ handlers' = handlers
                    /\ pendingTransactions' = pendingTransactions
                    /\ buckpayIdToExternalId' = buckpayIdToExternalId
               ELSE /\ ev'.resp = NoResponse
                    /\ \E s \in Slots :
                          /\ handlers[s].pc = "idle"
                          /\ handlers'[s].pc = "create_gateway"
                          /\ handlers'[s].amountInCents = cents ]_vars

C22_Witness ==
    /\ ev.op = "create" /\ ev.resp = 400
    /\ ev.req.amount = Num(4) /\ ev.req.email /\ ev.req.name

\* C23: a pass of the sweeper removes exactly the entries older than the
\* lifetime; an entry of any status whose age is at most the lifetime is in
\* the ledger after the pass, unchanged.
C23_SweepKeepsYoung ==
    [][ ev'.op = "sweep"
        => /\ \A e \in DOMAIN pendingTransactions :
                 now - pendingTransactions[e].createdAt <= TRANSACTION_LIFETIME_MINUTES
                     => /\ Has(pendingTransactions', e)
                        /\ pendingTransactions'[e] = pendingTransactions[e]
           /\ ev'.removed =
                 {e \in DOMAIN pendingTransactions :
                     now - pendingTransactions[e].createdAt > TRANSACTION_LIFETIME_MINUTES}
       ]_vars

C23_Witness ==
    /\ ev.op = "sweep" /\ ev.removed = {}
    /\ \E e \in DOMAIN pendingTransactions :
          /\ now - pendingTransactions[e].createdAt = TRANSACTION_LIFETIME_MINUTES
          /\ pendingTransactions[e].status = "refunded"

\* C24: the createdAt of an entry is written when the create handler stores it
\* and by no later step; an entry appears only under the orderId the create
\* handler gave it and no step moves an entry to another key.
C24_CreatedAtImmutable ==
    [][ /\ \A e \in DOMAIN pendingTransactions \cap DOMAIN pendingTransactions' :
              pendingTransactions'[e].createdAt = pendingTransactions[e].createdAt
        /\ \A e \in DOMAIN pendingTransactions' \ DOMAIN pendingTransactions :
              /\ ev'.op = "gateway" /\ ev'.externalId = e
              /\ pendingTransactions'[e].createdAt = now
              /\ DOMAIN pendingTransactions \subseteq DOMAIN pendingTransactions'
       ]_vars

C24_Witness ==
    /\ ev.op = "webhook" /\ ev.hit
    /\ pendingTransactions[TargetOf(ev.data.id)].createdAt < now
    /\ Cardinality(DOMAIN pendingTransactions) = 2

\* C25: with no token no handler ever waits for the attribution service and no
\* status enters any notifiedStatuses, while orders are still stored, webhook
\* hits still set the status and every handler answers at once.
C25_NoTokenNoNotified ==
    ~UTMIFY_TOKEN =>
        /\ \A e \in DOMAIN pendingTransactions : NotifiedOf(e) = {}
        /\ \A s \in Slots :
              ~(handlers[s].pc \in {"create_await", "webhook_await", "webhook_miss_await"})
        /\ (ev.op = "webhook" /\ ev.hit) =>
              /\ pendingTransactions[TargetOf(ev.data.id)].status = ev.data.status
              /\ ev.resp = 200
        /\ (ev.op = "gateway" /\ ev.outcome \in {"ok", "ok_no_id"}) =>
              /\ Has(pendingTransactions, ev.externalId)
              /\ ev.forward.status = "waiting_payment"
              /\ ev.resp = 200

C25_Witness ==
    /\ ~UTMIFY_TOKEN
    /\ ev.op = "webhook" /\ ev.hit /\ ev.forward.status = "paid" /\ ev.resp = 200
    /\ NotifiedOf(TargetOf(ev.data.id)) = {}

\* C26: every handler that has ended has sent a response, and the handlers
\* that waited for a forward answer 200 whether it was sent or not.
C26_EveryHandlerResponds ==
    /\ ev.op \in {"create", "gateway", "create_done", "webhook", "webhook_done",
                  "webhook_no_data", "query"}
          => \/ ev.resp # NoResponse
             \/ \E s \in Slots : handlers[s].pc # "idle"
    /\ ev.op \in {"create_done", "webhook_done"} => ev.resp = 200

\* C27: after a webhook hit the ledger status of the target is the status the
\* webhook carried, whatever it was before, and it still is when the forward
\* has returned, sent or not.
C27_StatusFollowsWebhook ==
    /\ (ev.op = "webhook" /\ ev.hit)
          => pendingTransactions[TargetOf(ev.data.id)].status = ev.data.status
    /\ (ev.op = "webhook_done" /\ ev.hit /\ Has(pendingTransactions, ev.externalId))
          => pendingTransactions[ev.externalId].status = ev.status

C27_Witness ==
    /\ ev.op = "webhook" /\ ev.hit /\ ev.changed /\ ev.data.status = "expired"
    /\ "refunded" \in NotifiedOf(TargetOf(ev.data.id))
    /\ pendingTransactions[TargetOf(ev.data.id)].status = "expired"

\* C20 amended: the status of a live order goes back to 'pending' only by a
\* webhook hit on that order that carries 'pending'; the query and the
\* sweeper never set it back.
C20_BackToPendingOnlyByWebhook ==
    [][ \A e \in DOMAIN pendingTransactions \cap DOMAIN pendingTransactions' :
            (pendingTransactions[e].status # "pending"
             /\ pendingTransactions'[e].status = "pending")
                => /\ ev'.op = "webhook" /\ ev'.hit
                   /\ ev'.data.status = "pending"
                   /\ TargetOf(ev'.data.id) = e ]_vars

C20_Witness ==
    /\ ev.op = "webhook" /\ ev.hit /\ ev.changed /\ ev.data.status = "pending"
    /\ pendingTransactions[TargetOf(ev.data.id)].status = "pending"
    /\ "paid" \in NotifiedOf(TargetOf(ev.data.id))

\* C28: notifiedStatuses of a live order is empty when the order is stored,
\* gains a status only when a forward of that status for that order returns
\* sent, and never loses one.
C28_NotifiedOnlyAfterSuccess ==
    [][ \A e \in DOMAIN pendingTransactions' :
            LET before == IF Has(pendingTransactions, e) THEN NotifiedOf(e) ELSE {}
                after == pendingTransactions'[e].utmifyNotifiedStatus
            IN  /\ before \subseteq after
                /\ after # before
                      => /\ ev'.op \in {"create_done", "webhook_done"}
                         /\ ev'.sent
                         /\ ev'.externalId = e
                         /\ after = before \cup {ev'.status}
                         /\ \E s \in Slots :
                               /\ handlers[s].pc \in {"create_await", "webhook_await"}
                               /\ handlers[s].externalId = e
                               /\ handlers'[s].pc = "idle" ]_vars

C28_Witness ==
    /\ ev.op = "webhook_done" /\ ev.hit /\ ev.sent
    /\ Has(pendingTransactions, ev.externalId)
    /\ {"waiting_payment", "paid", "refunded"} \subseteq NotifiedOf(ev.externalId)

\* C29: the set of ledger entries grows only when the create handler stores
\* an order and shrinks only in a pass of the sweeper, and the index changes
\* only in those steps; a webhook miss changes neither the ledger nor the index.
C29_OnlyCreateAndSweepChangeKeys ==
    [][ /\ DOMAIN pendingTransactions' \ DOMAIN pendingTransactions # {}
              => ev'.op = "gateway"
        /\ DOMAIN pendingTransactions \ DOMAIN pendingTransactions' # {}
              => ev'.op = "sweep"
        /\ buckpayIdToExternalId' # buckpayIdToExternalId
              => ev'.op \in {"gateway", "sweep"}
        /\ (ev'.op \in {"webhook", "webhook_done"} /\ ~ev'.hit)
              => /\ pendingTransactions' = pendingTransactions
                 /\ buckpayIdToExternalId' = buckpayIdToExternalId ]_vars

C29_Witness ==
    /\ ev.op = "webhook" /\ ~ev.hit /\ ev.data.id = NoId
    /\ ev.data.status = "refunded"
    /\ pendingTransactions # EmptyMap /\ buckpayIdToExternalId # EmptyMap

\* C30: the handler compares and writes the status in one step.  When a
\* webhook with a status S other than 'paid' starts right after another
\* webhook for the same order changed the status to S and suspended in its
\* forward, or at any later moment while that forward is in flight and the
\* status is still S, it observes no change and makes no forward: it adds no
\* forward of S to the one in flight.
C30_OneChangeObserved ==
    [][ /\ (/\ ev.op = "webhook" /\ ev.hit /\ ev.changed
            /\ ev.data.status # "paid" /\ ev.resp = NoResponse
            /\ ev'.op = "webhook" /\ ev'.hit
            /\ ev'.data.id = ev.data.id /\ ev'.data.status = ev.data.status)
           => ~ev'.changed /\ ev'.forward.status = "none"
        /\ (/\ ev'.op = "webhook" /\ ev'.hit /\ ev'.data.status # "paid"
            /\ pendingTransactions[TargetOf(ev'.data.id)].status = ev'.data.status
            /\ \E s \in Slots :
                  /\ handlers[s].pc = "webhook_await"
                  /\ handlers[s].externalId = TargetOf(ev'.data.id)
                  /\ handlers[s].status = ev'.data.status)
           => /\ ~ev'.changed /\ ev'.forward.status = "none"
              /\ handlers' = handlers ]_vars

C30_Witness ==
    /\ ev.op = "webhook" /\ ev.hit /\ ~ev.changed /\ ev.data.status = "refunded"
    /\ ev.forward.status = "none"
    /\ \E s \in Slots :
          /\ handlers[s].pc = "webhook_await"
          /\ handlers[s].externalId = TargetOf(ev.data.id)
          /\ handlers[s].status = "refunded"

\* C31: when the forward of a webhook hit returns after the sweeper deleted
\* the order, the handler answers 200 and changes neither map: the order stays
\* absent from the ledger and no index entry refers to it.
C31_SweptOrderStaysGone ==
    [][ (/\ ev'.op = "webhook_done" /\ ev'.hit
         /\ ~Has(pendingTransactions, ev'.externalId))
        => /\ ev'.resp = 200
           /\ pendingTransactions' = pendingTransactions
           /\ buckpayIdToExternalId' = buckpayIdToExternalId
           /\ ~Has(pendingTransactions', ev'.externalId)
           /\ \A k \in DOMAIN buckpayIdToExternalId' :
                 buckpayIdToExternalId'[k] # ev'.externalId ]_vars

C31_Witness ==
    /\ ev.op = "webhook_done" /\ ev.hit /\ ev.sent /\ ev.resp = 200
    /\ ~Has(pendingTransactions, ev.externalId)
    /\ \A k \in DOMAIN buckpayIdToExternalId : buckpayIdToExternalId[k] # ev.externalId
    /\ now > TRANSACTION_LIFETIME_MINUTES

\* C32: the create handler inserts the ledger entry and its index entry in the
\* step that starts the 'waiting_payment' forward; a webhook for that gateway
\* id handled while the forward is in flight is a hit; and when the create
\* handler resumes it changes nothing of the entry but utmifyNotifiedStatus,
\* which it only extends, so the webhook's update survives.
C32_InsertedBeforeForward ==
    [][ /\ (ev'.op = "gateway" /\ ev'.outcome = "ok")
           => /\ Has(pendingTransactions', ev'.externalId)
              /\ Has(buckpayIdToExternalId', GatewayIdFor(ev'.externalId))
              /\ buckpayIdToExternalId'[GatewayIdFor(ev'.externalId)] = ev'.externalId
        /\ (/\ ev'.op = "webhook" /\ ev'.data.id # NoId
            /\ \E s \in Slots :
                  /\ handlers[s].pc = "create_await"
                  /\ Has(pendingTransactions, handlers[s].externalId)
                  /\ ev'.data.id = pendingTransactions[handlers[s].externalId].buckpayId)
           => /\ ev'.hit
              /\ pendingTransactions'[TargetOf(ev'.data.id)].status = ev'.data.status
        /\ (ev'.op = "create_done" /\ Has(pendingTransactions, ev'.externalId))
           => /\ Has(pendingTransactions', ev'.externalId)
              /\ [pendingTransactions'[ev'.externalId]
                     EXCEPT !.utmifyNotifiedStatus = {}]
                 = [pendingTransactions[ev'.externalId]
                     EXCEPT !.utmifyNotifiedStatus = {}]
              /\ NotifiedOf(ev'.externalId)
                    \subseteq pendingTransactions'[ev'.externalId].utmifyNotifiedStatus
              /\ buckpayIdToExternalId' = buckpayIdToExternalId ]_vars

C32_Witness ==
    /\ ev.op = "create_done" /\ ev.sent
    /\ Has(pendingTransactions, ev.externalId)
    /\ pendingTransactions[ev.externalId].status = "paid"
    /\ pendingTransactions[ev.externalId].customer = FromWebhook
    /\ "waiting_payment" \in NotifiedOf(ev.externalId)

\* C33: every 'paid' webhook with a gateway id that resolves to no live order
\* is forwarded as 'paid', whatever was forwarded before, and the forward is
\* keyed by the gateway id; this includes the webhook that follows the
\* sweeper's removal of the order and the webhook that follows another miss.
C33_EveryPaidMissForwards ==
    [][ (/\ ev'.op = "webhook" /\ ev'.data.status = "paid" /\ ev'.data.id # NoId
         /\ ~Found(ev'.data))
        => /\ ~ev'.hit
           /\ ev'.forward.status = "paid"
           /\ ev'.forward.orderId = ev'.data.id
           /\ pendingTransactions' = pendingTransactions
           /\ buckpayIdToExternalId' = buckpayIdToExternalId ]_vars

C33_Witness ==
    /\ ev.op = "webhook" /\ ~ev.hit /\ ev.data.id = GatewayIdFor(1)
    /\ ev.forward.status = "paid" /\ ev.forward.orderId = GatewayIdFor(1)
    /\ nextOrder = 1 /\ ~Has(pendingTransactions, 1)
    /\ now > TRANSACTION_LIFETIME_MINUTES

\* C34 as stated: for an order the status query has flipped from 'pending' to
\* 'expired', no forward with status 'expired' is ever made.
C34_ExpiredNeverForwarded ==
    (ev.op = "webhook" /\ ev.hit /\ ev.forward.status = "expired")
        => ~(ev.forward.orderId \in lazilyExpired)

\* C34 amended: the status query, the timer and the sweeper attempt no forward
\* and start no handler; an 'expired' webhook that finds the status 'expired',
\* in particular the one handled right after the lazy flip, changes nothing
\* and forwards nothing; a forward with status 'expired' is made only by a
\* webhook hit that carries 'expired' and finds another status stored.
C34_ExpiredForwardedOnlyOnChange ==
    [][ /\ (ev'.op \in {"query", "tick", "sweep"})
           => ev'.forward = NoForward /\ handlers' = handlers
        /\ (/\ ev.op = "query" /\ ev.flipped
            /\ ev'.op = "webhook" /\ ev'.data.status = "expired"
            /\ IndexResolves(ev'.data.id) /\ TargetOf(ev'.data.id) = ev.id)
           => ev'.hit /\ ~ev'.changed /\ ev'.forward = NoForward
        /\ (/\ ev'.op = "webhook" /\ ev'.data.status = "expired" /\ Found(ev'.data)
            /\ pendingTransactions[TargetOf(ev'.data.id)].status = "expired")
           => ~ev'.changed /\ ev'.forward = NoForward
        /\ ev'.forward.status = "expired"
           => /\ ev'.op = "webhook" /\ ev'.hit /\ ev'.changed
              /\ ev'.data.status = "expired"
              /\ pendingTransactions[TargetOf(ev'.data.id)].status # "expired" ]_vars

C34_Witness ==
    /\ ev.op = "webhook" /\ ev.hit /\ ev.data.status = "expired" /\ ~ev.changed
    /\ ev.forward = NoForward
    /\ TargetOf(ev.data.id) \in lazilyExpired
    /\ ~("expired" \in NotifiedOf(TargetOf(ev.data.id)))

\* C35: a webhook hit changes only the target order.  It leaves the target's
\* createdAt, tracking and utmifyNotifiedStatus as they were, sets customer,
\* product and offer to the webhook's when it supplies them and leaves them
\* otherwise, and changes no other ledger entry, no key of the ledger and
\* nothing of the secondary index.
C35_HitChangesOnlyTarget ==
    [][ (ev'.op = "webhook" /\ ev'.hit)
        => LET orderId == TargetOf(ev'.data.id)
               old == pendingTransactions[orderId]
               new == pendingTransactions'[orderId]
               f == ev'.data.fields
           IN  /\ DOMAIN pendingTransactions' = DOMAIN pendingTransactions
               /\ \A e \in DOMAIN pendingTransactions \ {orderId} :
                     pendingTransactions'[e] = pendingTransactions[e]
               /\ buckpayIdToExternalId' = buckpayIdToExternalId
               /\ new.createdAt = old.createdAt
               /\ new.tracking = old.tracking
               /\ new.utmifyNotifiedStatus = old.utmifyNotifiedStatus
               /\ new.customer = IF f.buyer # Null THEN f.buyer ELSE old.customer
               /\ new.product = IF f.product # Null THEN f.product ELSE old.product
               /\ new.offer = IF f.offer # Null THEN f.offer ELSE old.offer ]_vars

C35_Witness ==
    /\ ev.op = "webhook" /\ ev.hit /\ ev.changed
    /\ Cardinality(DOMAIN pendingTransactions) = 2
    /\ \E e \in DOMAIN pendingTransactions :
          /\ e # TargetOf(ev.data.id)
          /\ pendingTransactions[e].status = "pending"
          /\ pendingTransactions[e].customer = FromCreate
    /\ ev.data.fields.buyer = Null
    /\ pendingTransactions[TargetOf(ev.data.id)].customer = FromCreate
    /\ pendingTransactions[TargetOf(ev.data.id)].tracking = FromCreate

\* the handlers suspended at the await of a forward
Awaiting == {s \in Slots : handlers[s].pc \in
                {"create_await", "webhook_await", "webhook_miss_await"}}

\* C36: a handler invocation attempts at most one forward.  The only steps
\* that call the forwarder are the create handler's step after a successful
\* gateway call, which makes exactly one 'waiting_payment' forward, and the
\* webhook handler's first step, which makes at most one; validation, the
\* failure paths of create, the resumption of a handler after its forward,
\* the status query, the timer and the sweeper make none, and a step that
\* makes a forward leaves exactly one more handler waiting.
C36_AtMostOneForward ==
    [][ /\ (ev'.op \in {"create", "create_done", "webhook_done", "webhook_no_data",
                        "query", "sweep", "tick", "minute"})
           => ev'.forward = NoForward /\ Awaiting' \subseteq Awaiting
        /\ (ev'.op = "gateway")
           => IF ev'.outcome \in {"ok", "ok_no_id"}
              THEN ev'.forward.status = "waiting_payment"
              ELSE ev'.forward = NoForward /\ Awaiting' \subseteq Awaiting
        /\ (ev'.op = "webhook" /\ ev'.forward = NoForward)
           => Awaiting' \subseteq Awaiting
        /\ (ev'.op \in {"gateway", "webhook"} /\ ev'.forward # NoForward)
           => /\ Awaiting \subseteq Awaiting'
              /\ Cardinality(Awaiting' \ Awaiting) = 1
              /\ ev'.resp = NoResponse ]_vars

C36_Witness ==
    /\ ev.op = "create_done" /\ ev.forward = NoForward /\ ev.resp = 200
    /\ Awaiting = {}
    /\ Has(pendingTransactions, ev.externalId)

\* the ledger entries that agree with transactionInfo on the status and on
\* whether 'paid' was notified, and differ in the other notified statuses,
\* the amounts and the customer data
VariantsOf(transactionInfo) ==
    {[transactionInfo EXCEPT !.utmifyNotifiedStatus = n, !.amountInCents = a,
                             !.gatewayFee = g, !.customer = c] :
        n \in {m \in SUBSET (Statuses \cup {"waiting_payment"}) :
                  ("paid" \in m) = ("paid" \in transactionInfo.utmifyNotifiedStatus)},
        a \in {0, 1000}, g \in {0, 200}, c \in {FromCreate, FromWebhook}}

\* C37: on a webhook hit, every ledger entry with the same status and the same
\* answer to "was 'paid' notified" as the target yields the decision the
\* handler took and the status it stored, whatever its other notified
\* statuses, amounts and customer data; the decision is the one determined
\* by the stored status, the webhook status and that answer.
C37_DecisionDependsOnThree ==
    [][ (ev'.op = "webhook" /\ ev'.hit)
        => LET orderId == TargetOf(ev'.data.id)
               old == pendingTransactions[orderId]
               status == ev'.data.status
           IN  /\ \A t \in VariantsOf(old) :
                     /\ ShouldSendToUTMify(t, status) = (ev'.forward # NoForward)
                     /\ Merged(t, ev'.data).status = pendingTransactions'[orderId].status
               /\ (ev'.forward # NoForward)
                     = (\/ old.status # status
                        \/ status = "paid" /\ ~("paid" \in old.utmifyNotifiedStatus)) ]_vars

C37_Witness ==
    /\ ev.op = "webhook" /\ ev.hit /\ ~ev.changed /\ ev.data.status = "refunded"
    /\ ev.forward = NoForward
    /\ NotifiedOf(TargetOf(ev.data.id)) = {"paid"}

====
